---- MODULE Spec2Model ----
(***************************************************************************)
(* Model of dxgcap (src/src/lib.rs): the DXGIManager duplication-session   *)
(* lifecycle (new, set_capture_source_index, set_timeout_ms,               *)
(* acquire_output_duplication, capture_frame, capture_frame_components)    *)
(* over a display driver whose answers are inputs.                         *)
(***************************************************************************)
EXTENDS Integers, Sequences, FiniteSets, TLC

\* ------------------------------------------------------------------------
\* Bounds of the model
\* ------------------------------------------------------------------------
MaxAdapters == 2
MaxOutputs == 2
MaxIndex == 2
MaxSessions == 3
\* largest width and height of a desktop rectangle, in pixels
MaxSide == 2
\* largest padding of a mapped row, in pixels
MaxPad == 1
\* largest number of outputs an adapter enumerates in the study of the discovery
MaxEnum == 4

\* ------------------------------------------------------------------------
\* HRESULT values (signed 32 bit) the code compares against
\* ------------------------------------------------------------------------
S_OK == 0
DXGI_ERROR_ACCESS_LOST == -2005270490
E_ACCESSDENIED == -2147024891
DXGI_ERROR_WAIT_TIMEOUT == -2005270489
E_FAIL == -2147467259

hr_failed(hr) == hr < 0

HResults == {S_OK, DXGI_ERROR_ACCESS_LOST, E_ACCESSDENIED, DXGI_ERROR_WAIT_TIMEOUT, E_FAIL}

Failures == {hr \in HResults : hr_failed(hr)}

\* ------------------------------------------------------------------------
\* The driver's view of the machine: adapters in EnumAdapters1 order, each
\* with its outputs in EnumOutputs order.  An output carries what the code
\* asks of it: AttachedToDesktop and the primary-monitor flag.  A detached
\* output is never asked for more than AttachedToDesktop, so its primary
\* flag is fixed.
\* ------------------------------------------------------------------------
Primary == [attached |-> TRUE, primary |-> TRUE]
Secondary == [attached |-> TRUE, primary |-> FALSE]
Detached == [attached |-> FALSE, primary |-> FALSE]

Outputs == {Primary, Secondary, Detached}

SeqUpTo(S, n) == UNION {[1..k -> S] : k \in 0..n}

Adapters == SeqUpTo(Outputs, MaxOutputs)

Layouts == SeqUpTo(Adapters, MaxAdapters)

\* The layouts the display changes between in the lifecycle specification
Displays ==
  { <<>>,
    << <<Primary>> >>,
    << <<Primary, Secondary>> >>,
    << <<Secondary>>, <<Primary>> >>,
    << <<Secondary>>, <<Secondary>> >>,
    << <<Detached>>, <<Secondary, Primary>> >> }

\* A driver call that fails during one acquisition pass.  Each of these
\* failures ends the pass at once, so one pass meets at most one of them:
\* CreateDXGIFactory1 ("factory"), D3D11CreateDevice for adapter a
\* ("device"), DuplicateOutput for output out of adapter a ("dup").
NoFault == [kind |-> "none", adapter |-> 0, output |-> 0]

\* the failures a pass over layout can meet
Faults(layout) ==
  {NoFault, [kind |-> "factory", adapter |-> 0, output |-> 0]}
  \cup {[kind |-> "device", adapter |-> a, output |-> 0] : a \in 1..Len(layout)}
  \cup UNION {{[kind |-> "dup", adapter |-> a, output |-> out] :
                  out \in 1..Len(layout[a])} : a \in 1..Len(layout)}

Timeouts == {0, 300}

\* ------------------------------------------------------------------------
\* State
\* ------------------------------------------------------------------------
VARIABLES
  display,      \* what the driver enumerates at present (a layout)
  status,       \* "none": no manager constructed; "live"; "panicked"
  manager,      \* the DXGIManager: duplicated_output, capture_source_index, timeout_ms
  nextId,       \* identity the next DuplicatedOutput created will get
  refreshMark,  \* nextId at the latest RefreshFailure (0: none yet)
  lastCall,     \* record of the latest call of a manager operation
  probe         \* the input, and then the result, of the function under study

vars == <<display, status, manager, nextId, refreshMark, lastCall, probe>>

\* probe where no function is under study
NoProbe == [kind |-> "none"]

\* Option::None of duplicated_output; a DuplicatedOutput has id >= 1 and
\* remembers the adapter and output it duplicates, and the index it was
\* selected for
None == [id |-> 0, adapter |-> 0, output |-> 0, index |-> 0]

NoManager == [duplicated_output |-> None, capture_source_index |-> 0, timeout_ms |-> 0]

\* ------------------------------------------------------------------------
\* Output discovery and capture-source selection
\* ------------------------------------------------------------------------
\* EnumOutputsFrom going on past an output that is not attached
RECURSIVE EnumOutputsFrom_Filter(_, _)
EnumOutputsFrom_Filter(adapter, i) ==
  IF i > Len(adapter) THEN <<>>
  ELSE IF adapter[i].attached
       THEN <<i>> \o EnumOutputsFrom_Filter(adapter, i + 1)
       ELSE EnumOutputsFrom_Filter(adapter, i + 1)

\* EnumOutputs for i = 1, 2, ... until it fails or yields an output that
\* is not attached to the desktop
RECURSIVE EnumOutputsFrom(_, _)
EnumOutputsFrom(adapter, i) ==
  IF i > Len(adapter) THEN <<>>
  ELSE IF adapter[i].attached
       THEN <<i>> \o EnumOutputsFrom(adapter, i + 1)
       ELSE <<>>

\* the handles returned are the outputs' positions in the adapter's enumeration
get_adapter_outputs(adapter) == EnumOutputsFrom(adapter, 1)

output_is_primary(adapter, out) == adapter[out].primary

\* get_capture_source with the primary output searched from the far end
get_capture_source_LastPrimary(adapter, output_dups, cs_index) ==
  LET isPrimary(out) == output_is_primary(adapter, out)
      notPrimary(out) == ~output_is_primary(adapter, out)
      prim == SelectSeq(output_dups, isPrimary)
      nonp == SelectSeq(output_dups, notPrimary)
  IN IF cs_index = 0
     THEN (IF Len(prim) > 0 THEN prim[Len(prim)] ELSE 0)
     ELSE (IF cs_index <= Len(nonp) THEN nonp[cs_index] ELSE 0)

\* 0 stands for Option::None
get_capture_source(adapter, output_dups, cs_index) ==
  LET isPrimary(out) == output_is_primary(adapter, out)
      notPrimary(out) == ~output_is_primary(adapter, out)
      prim == SelectSeq(output_dups, isPrimary)
      nonp == SelectSeq(output_dups, notPrimary)
  IN IF cs_index = 0
     THEN (IF Len(prim) > 0 THEN prim[1] ELSE 0)
     ELSE (IF cs_index <= Len(nonp) THEN nonp[cs_index] ELSE 0)

\* duplicate_outputs leaving out the output whose DuplicateOutput fails
duplicate_outputs_SkipsFailed(a, outputs, fault) ==
  LET succeeds(out) == ~(fault.kind = "dup" /\ fault.adapter = a /\ fault.output = out)
  IN [ok |-> TRUE, out_dups |-> SelectSeq(outputs, succeeds)]

\* Err as soon as DuplicateOutput fails for one of the outputs
duplicate_outputs(a, outputs, fault) ==
  IF \E k \in 1..Len(outputs) :
       fault.kind = "dup" /\ fault.adapter = a /\ fault.output = outputs[k]
  THEN [ok |-> FALSE, out_dups |-> <<>>]
  ELSE [ok |-> TRUE, out_dups |-> outputs]

\* FALSE: the call panics
create_dxgi_factory_1(fault) == fault.kind # "factory"

d3d11_create_device(a, fault) == ~(fault.kind = "device" /\ fault.adapter = a)

\* ------------------------------------------------------------------------
\* DXGIManager::acquire_output_duplication
\* ------------------------------------------------------------------------
\* how a pass ends: outcome "Ok" (with the adapter and output selected),
\* "Err" or "Panic"; hit is the driver call that failed, if one did
AcqOk(a, out) == [outcome |-> "Ok", hit |-> "none", adapter |-> a, output |-> out]

AcqErr(hit) == [outcome |-> "Err", hit |-> hit, adapter |-> 0, output |-> 0]

AcqPanic(hit) == [outcome |-> "Panic", hit |-> hit, adapter |-> 0, output |-> 0]

RECURSIVE AcquireLoop(_, _, _, _)
RECURSIVE AdapterBody(_, _, _, _, _)
RECURSIVE AdapterSelect(_, _, _, _, _)
RECURSIVE AdapterSelected(_, _, _, _, _)

\* the loop over the adapters, from adapter a on: the adapters without
\* outputs are filtered out
AcquireLoop(layout, a, cs_index, fault) ==
  IF a > Len(layout) THEN AcqErr("none")
  ELSE AdapterBody(layout, a, cs_index, fault, get_adapter_outputs(layout[a]))

\* the loop's body for adapter a with its outputs
AdapterBody(layout, a, cs_index, fault, outputs) ==
  IF outputs = <<>> THEN AcquireLoop(layout, a + 1, cs_index, fault)
  ELSE IF ~d3d11_create_device(a, fault) THEN AcqPanic("device")
  ELSE AdapterSelect(layout, a, cs_index, fault, duplicate_outputs(a, outputs, fault))

\* `?` on the duplications of adapter a, then the selection among them alone
AdapterSelect(layout, a, cs_index, fault, dup) ==
  IF ~dup.ok THEN AcqErr("dup")
  ELSE AdapterSelected(layout, a, cs_index, fault,
                       get_capture_source(layout[a], dup.out_dups, cs_index))

AdapterSelected(layout, a, cs_index, fault, sel) ==
  IF sel # 0 THEN AcqOk(a, sel)
  ELSE AcquireLoop(layout, a + 1, cs_index, fault)

\* AcquireDone of a pass that is skipped when a session is already held
AcquireDone_SkippedWhenHeld(self, r, id) ==
  IF self.duplicated_output.id # 0
  THEN [self |-> self, outcome |-> "Ok", hit |-> "none"]
  ELSE [self |-> [self EXCEPT !.duplicated_output =
                    IF r.outcome = "Ok"
                    THEN [id |-> id, adapter |-> r.adapter, output |-> r.output,
                          index |-> self.capture_source_index]
                    ELSE None],
        outcome |-> r.outcome, hit |-> r.hit]

\* AcquireDone without duplicated_output set to None first: a pass that
\* fails leaves the session in place
AcquireDone_KeptOnFailure(self, r, id) ==
  [self |-> IF r.outcome = "Ok"
            THEN [self EXCEPT !.duplicated_output =
                    [id |-> id, adapter |-> r.adapter, output |-> r.output,
                     index |-> self.capture_source_index]]
            ELSE self,
   outcome |-> r.outcome, hit |-> r.hit]

\* self once the pass r is over: duplicated_output was set to None first
AcquireDone(self, r, id) ==
  [self |-> [self EXCEPT !.duplicated_output =
               IF r.outcome = "Ok"
               THEN [id |-> id, adapter |-> r.adapter, output |-> r.output,
                     index |-> self.capture_source_index]
               ELSE None],
   outcome |-> r.outcome, hit |-> r.hit]

\* self after the call, and how the call ended: "Ok", "Err" or "Panic"
acquire_output_duplication(self, layout, fault, id) ==
  AcquireDone(self,
              IF create_dxgi_factory_1(fault)
              THEN AcquireLoop(layout, 1, self.capture_source_index, fault)
              ELSE AcqPanic("factory"),
              id)

\* ------------------------------------------------------------------------
\* What a call of a manager operation leaves behind: self after the call,
\* the value returned ("Panic": the call did not return), the driver calls
\* made in order, how the acquire() run by the call ended ("none": no
\* acquire() ran), the id of the DuplicatedOutput the frame request was
\* issued on (0: no frame request), and the HRESULT that
\* DuplicatedOutput::capture_frame_to_surface returned (S_OK when not called)
\* ------------------------------------------------------------------------
Ret(self, result, reason, events, acq, frameOn, hr) ==
  [self |-> self, result |-> result, reason |-> reason, events |-> events,
   acq |-> acq, frameOn |-> frameOn, hr |-> hr]

\* acq of a call that ran no acquire()
NoAcq == [outcome |-> "none", hit |-> "none"]

\* acq of a call whose acquire() ended as r
AcqOf(r) == [outcome |-> r.outcome, hit |-> r.hit]

\* ------------------------------------------------------------------------
\* The driver's answers during one capture call: the HRESULT of
\* AcquireNextFrame, of CreateTexture2D, of the cast of the staging texture
\* to IDXGISurface1, and of Map.  A call that fails ends the pipeline, so at
\* most one of them is a failure.  The code looks at the value of a failure
\* of the first three, and only at the sign of Map's.
\* ------------------------------------------------------------------------
AllOk == [frame |-> S_OK, tex |-> S_OK, cast |-> S_OK, map |-> S_OK]

DriverAnswers ==
  {AllOk}
  \cup {[AllOk EXCEPT !.frame = hr] : hr \in Failures}
  \cup {[AllOk EXCEPT !.tex = hr] : hr \in Failures}
  \cup {[AllOk EXCEPT !.cast = hr] : hr \in Failures}
  \cup {[AllOk EXCEPT !.map = E_FAIL]}

\* DuplicatedOutput::capture_frame_to_surface: the HRESULT (S_OK: a surface)
\* and the driver calls made.  Drop(x) is the Release that the ComPtr x makes
\* of its reference when it goes out of scope (frame_texture at the end of
\* the CopyResource statement that consumed it, or at the return)
DuplicatedOutput_capture_frame_to_surface(drv) ==
  IF hr_failed(drv.frame)
  THEN [hr |-> drv.frame, events |-> <<"AcquireNextFrame">>]
  ELSE IF hr_failed(drv.tex)
  THEN [hr |-> drv.tex,
        events |-> <<"AcquireNextFrame", "CreateTexture2D",
                     "Drop(frame_texture)", "Drop(frame_resource)">>]
  ELSE [hr |-> drv.cast,
        events |-> <<"AcquireNextFrame", "CreateTexture2D", "CopyResource",
                     "Drop(frame_texture)", "ReleaseFrame", "cast",
                     "Drop(readable_surface)", "Drop(frame_resource)">>]

\* Reacquired with the failure of acquire() ignored
Reacquired_FailureIgnored(r, events, frameOn, hr, okResult, okReason) ==
  IF r.outcome = "Panic"
  THEN Ret(r.self, "Panic", "", events \o <<"acquire_output_duplication">>,
           AcqOf(r), frameOn, hr)
  ELSE Ret(r.self, okResult, okReason, events \o <<"acquire_output_duplication">>,
           AcqOf(r), frameOn, hr)

\* Reacquired asking for a frame again once the acquire() succeeded
Reacquired_Retries(r, events, frameOn, hr, okResult, okReason) ==
  IF r.outcome = "Ok"
  THEN Ret(r.self, okResult, okReason,
           events \o <<"acquire_output_duplication", "AcquireNextFrame">>,
           AcqOf(r), frameOn, hr)
  ELSE IF r.outcome = "Err"
  THEN Ret(r.self, "RefreshFailure", "", events \o <<"acquire_output_duplication">>,
           AcqOf(r), frameOn, hr)
  ELSE Ret(r.self, "Panic", "", events \o <<"acquire_output_duplication">>,
           AcqOf(r), frameOn, hr)

\* the value a capture call returns after its acquire() r: okResult (with
\* okReason) if r is Ok, RefreshFailure if r is Err
Reacquired(r, events, frameOn, hr, okResult, okReason) ==
  IF r.outcome = "Ok"
  THEN Ret(r.self, okResult, okReason, events \o <<"acquire_output_duplication">>,
           AcqOf(r), frameOn, hr)
  ELSE IF r.outcome = "Err"
  THEN Ret(r.self, "RefreshFailure", "", events \o <<"acquire_output_duplication">>,
           AcqOf(r), frameOn, hr)
  ELSE Ret(r.self, "Panic", "", events \o <<"acquire_output_duplication">>,
           AcqOf(r), frameOn, hr)

\* CaptureUnacquired going on with the call once the acquire() succeeded
CaptureUnacquired_GoesOn(self, layout, fault, id) ==
  Reacquired(acquire_output_duplication(self, layout, fault, id), <<>>, 0, S_OK,
             "Ok", "")

\* the arm taken when duplicated_output is None
CaptureUnacquired(self, layout, fault, id) ==
  Reacquired(acquire_output_duplication(self, layout, fault, id), <<>>, 0, S_OK,
             "Fail", "No valid duplicated output")

\* CaptureMatch with a re-acquisition in the timeout arm too
CaptureMatch_TimeoutReacquires(self, layout, fault, id, s) ==
  IF ~hr_failed(s.hr)
  THEN Ret(self, "Ok", "", s.events, NoAcq, self.duplicated_output.id, s.hr)
  ELSE IF s.hr = DXGI_ERROR_ACCESS_LOST
  THEN Reacquired(acquire_output_duplication(self, layout, fault, id), s.events,
                  self.duplicated_output.id, s.hr, "AccessLost", "")
  ELSE IF s.hr = E_ACCESSDENIED
  THEN Ret(self, "AccessDenied", "", s.events, NoAcq, self.duplicated_output.id, s.hr)
  ELSE IF s.hr = DXGI_ERROR_WAIT_TIMEOUT
  THEN Reacquired(acquire_output_duplication(self, layout, fault, id), s.events,
                  self.duplicated_output.id, s.hr, "Timeout", "")
  ELSE Reacquired(acquire_output_duplication(self, layout, fault, id), s.events,
                  self.duplicated_output.id, s.hr, "Fail", "Failure when acquiring frame")

\* the match on the result s of the frame request
CaptureMatch(self, layout, fault, id, s) ==
  IF ~hr_failed(s.hr)
  THEN Ret(self, "Ok", "", s.events, NoAcq, self.duplicated_output.id, s.hr)
  ELSE IF s.hr = DXGI_ERROR_ACCESS_LOST
  THEN Reacquired(acquire_output_duplication(self, layout, fault, id), s.events,
                  self.duplicated_output.id, s.hr, "AccessLost", "")
  ELSE IF s.hr = E_ACCESSDENIED
  THEN Ret(self, "AccessDenied", "", s.events, NoAcq, self.duplicated_output.id, s.hr)
  ELSE IF s.hr = DXGI_ERROR_WAIT_TIMEOUT
  THEN Ret(self, "Timeout", "", s.events, NoAcq, self.duplicated_output.id, s.hr)
  ELSE Reacquired(acquire_output_duplication(self, layout, fault, id), s.events,
                  self.duplicated_output.id, s.hr, "Fail", "Failure when acquiring frame")

\* DXGIManager::capture_frame_to_surface
capture_frame_to_surface(self, layout, fault, drv, id) ==
  IF self.duplicated_output.id = 0
  THEN CaptureUnacquired(self, layout, fault, id)
  ELSE CaptureMatch(self, layout, fault, id,
                    DuplicatedOutput_capture_frame_to_surface(drv))

\* capture_frame_t once capture_frame_to_surface has returned r, up to the
\* mapping of the surface
CaptureMap(r, drv) ==
  IF r.result # "Ok" THEN r
  ELSE IF hr_failed(drv.map)
  THEN Ret(r.self, "Fail", "Failed to map surface",
           r.events \o <<"Map", "Release", "Drop(frame_surface)">>,
           r.acq, r.frameOn, r.hr)
  ELSE Ret(r.self, "Ok", "", r.events \o <<"Map", "Unmap", "Drop(frame_surface)">>,
           r.acq, r.frameOn, r.hr)

capture_frame_t(self, layout, fault, drv, id) ==
  CaptureMap(capture_frame_to_surface(self, layout, fault, drv, id), drv)

capture_frame(self, layout, fault, drv, id) ==
  capture_frame_t(self, layout, fault, drv, id)

capture_frame_components(self, layout, fault, drv, id) ==
  capture_frame_t(self, layout, fault, drv, id)

\* the match of new on the acquisition r: Ok(manager), Err, or the panic
NewDone(r) ==
  IF r.outcome = "Ok"
  THEN Ret(r.self, "Ok", "", <<"acquire_output_duplication">>, AcqOf(r), 0, S_OK)
  ELSE IF r.outcome = "Err"
  THEN Ret(NoManager, "Err", "Failed to acquire output duplication",
           <<"acquire_output_duplication">>, AcqOf(r), 0, S_OK)
  ELSE Ret(NoManager, "Panic", "", <<"acquire_output_duplication">>, AcqOf(r), 0, S_OK)

\* DXGIManager::new
new(timeout_ms, layout, fault, id) ==
  NewDone(acquire_output_duplication(
            [duplicated_output |-> None, capture_source_index |-> 0,
             timeout_ms |-> timeout_ms],
            layout, fault, id))

\* unwrap() of the acquisition r: a panic unless it is Ok
Unwrap(r) ==
  IF r.outcome = "Ok"
  THEN Ret(r.self, "Ok", "", <<"acquire_output_duplication">>, AcqOf(r), 0, S_OK)
  ELSE Ret(r.self, "Panic", "", <<"acquire_output_duplication">>, AcqOf(r), 0, S_OK)

\* set_capture_source_index storing the index and leaving the session alone
set_capture_source_index_NoAcquire(self, cs, layout, fault, id) ==
  Ret([self EXCEPT !.capture_source_index = cs], "Ok", "", <<>>, NoAcq, 0, S_OK)

\* set_capture_source_index with the index stored after the acquisition
set_capture_source_index_StoredLate(self, cs, layout, fault, id) ==
  [Unwrap(acquire_output_duplication(self, layout, fault, id))
     EXCEPT !.self.capture_source_index = cs]

set_capture_source_index(self, cs, layout, fault, id) ==
  Unwrap(acquire_output_duplication([self EXCEPT !.capture_source_index = cs],
                                    layout, fault, id))

get_capture_source_index(self) == self.capture_source_index

set_timeout_ms(self, timeout_ms) ==
  Ret([self EXCEPT !.timeout_ms = timeout_ms], "Ok", "", <<>>, NoAcq, 0, S_OK)

\* the public acquire_output_duplication called by the user: Ok(()), Err(())
AcquireReturned(r) ==
  Ret(r.self, r.outcome, "", <<"acquire_output_duplication">>, AcqOf(r), 0, S_OK)

\* ------------------------------------------------------------------------
\* Specification of the manager's lifecycle
\* ------------------------------------------------------------------------
NoCall ==
  [op |-> "none", arg |-> 0, result |-> "none", reason |-> "", events |-> <<>>,
   acq |-> NoAcq, frameOn |-> 0, hr |-> S_OK, value |-> 0, pre |-> NoManager,
   preMark |-> 0]

Init ==
  /\ display \in Displays
  /\ status = "none"
  /\ manager = NoManager
  /\ nextId = 1
  /\ refreshMark = 0
  /\ lastCall = NoCall
  /\ probe = NoProbe

\* whether a manager exists after the call
StatusAfter(op, result) ==
  IF result = "Panic" THEN "panicked"
  ELSE IF op = "new" /\ result = "Err" THEN "none"
  ELSE "live"

\* the state after a call of operation op that left r behind
Called(op, arg, r, value) ==
  /\ status' = StatusAfter(op, r.result)
  /\ manager' = r.self
  /\ nextId' = IF r.self.duplicated_output.id = nextId THEN nextId + 1 ELSE nextId
  /\ refreshMark' = IF r.result = "RefreshFailure" THEN nextId ELSE refreshMark
  /\ lastCall' = [op |-> op, arg |-> arg, result |-> r.result, reason |-> r.reason,
                  events |-> r.events, acq |-> r.acq, frameOn |-> r.frameOn,
                  hr |-> r.hr, value |-> value, pre |-> manager,
                  preMark |-> refreshMark]
  /\ UNCHANGED <<display, probe>>

New(t, fault) ==
  /\ status = "none"
  /\ nextId <= MaxSessions
  /\ Called("new", t, new(t, display, fault, nextId), 0)

SetCaptureSourceIndex(cs, fault) ==
  /\ status = "live"
  /\ nextId <= MaxSessions
  /\ Called("set_capture_source_index", cs,
            set_capture_source_index(manager, cs, display, fault, nextId), 0)

GetCaptureSourceIndex ==
  /\ status = "live"
  /\ Called("get_capture_source_index", 0, Ret(manager, "Ok", "", <<>>, NoAcq, 0, S_OK),
            get_capture_source_index(manager))

SetTimeoutMs(t) ==
  /\ status = "live"
  /\ Called("set_timeout_ms", t, set_timeout_ms(manager, t), 0)

AcquireOutputDuplication(fault) ==
  /\ status = "live"
  /\ nextId <= MaxSessions
  /\ Called("acquire_output_duplication", 0,
            AcquireReturned(acquire_output_duplication(manager, display, fault, nextId)),
            0)

CaptureFrame(fault, drv) ==
  /\ status = "live"
  /\ nextId <= MaxSessions
  /\ Called("capture_frame", 0, capture_frame(manager, display, fault, drv, nextId), 0)

CaptureFrameComponents(fault, drv) ==
  /\ status = "live"
  /\ nextId <= MaxSessions
  /\ Called("capture_frame_components", 0,
            capture_frame_components(manager, display, fault, drv, nextId), 0)

\* the environment: monitors are plugged, unplugged, made primary
DisplayChange(d) ==
  /\ status # "panicked"
  /\ d # display
  /\ display' = d
  /\ UNCHANGED <<status, manager, nextId, refreshMark, lastCall, probe>>

Next ==
  \/ \E t \in Timeouts, fault \in Faults(display) : New(t, fault)
  \/ \E cs \in 0..MaxIndex, fault \in Faults(display) : SetCaptureSourceIndex(cs, fault)
  \/ GetCaptureSourceIndex
  \/ \E t \in Timeouts : SetTimeoutMs(t)
  \/ \E fault \in Faults(display) : AcquireOutputDuplication(fault)
  \/ \E fault \in Faults(display), drv \in DriverAnswers : CaptureFrame(fault, drv)
  \/ \E fault \in Faults(display), drv \in DriverAnswers : CaptureFrameComponents(fault, drv)
  \/ \E d \in Displays : DisplayChange(d)

Spec == Init /\ [][Next]_vars

\* ------------------------------------------------------------------------
\* Specification of one acquisition pass, over every layout within the
\* bounds: a manager that holds no session, whatever its index, runs
\* acquire_output_duplication once
\* ------------------------------------------------------------------------
InitAcquire ==
  /\ display \in Layouts
  /\ status = "live"
  /\ manager \in {[duplicated_output |-> None, capture_source_index |-> k,
                   timeout_ms |-> 0] : k \in 0..MaxIndex}
  /\ nextId = 1
  /\ refreshMark = 0
  /\ lastCall = NoCall
  /\ probe = NoProbe

NextAcquire ==
  \E fault \in Faults(display) : lastCall.op = "none" /\ AcquireOutputDuplication(fault)

SpecAcquire == InitAcquire /\ [][NextAcquire]_vars

\* ------------------------------------------------------------------------
\* Specification of the discovery: get_adapter_outputs is run once on an
\* adapter that enumerates up to MaxEnum outputs
\* ------------------------------------------------------------------------
InitDiscover ==
  /\ display = <<>>
  /\ status = "live"
  /\ manager = NoManager
  /\ nextId = 1
  /\ refreshMark = 0
  /\ lastCall = NoCall
  /\ probe \in {[kind |-> "discover", adapter |-> a, done |-> FALSE, outputs |-> <<>>] :
                  a \in SeqUpTo(Outputs, MaxEnum)}

Discover ==
  /\ ~probe.done
  /\ probe' = [probe EXCEPT !.done = TRUE, !.outputs = get_adapter_outputs(probe.adapter)]
  /\ UNCHANGED <<display, status, manager, nextId, refreshMark, lastCall>>

NextDiscover == Discover

SpecDiscover == InitDiscover /\ [][NextDiscover]_vars

\* ------------------------------------------------------------------------
\* Specification of one acquisition pass during which DuplicateOutput fails
\* for one output, over every layout of attached outputs within the bounds
\* ------------------------------------------------------------------------
AttachedLayouts == SeqUpTo(SeqUpTo({Primary, Secondary}, MaxOutputs), MaxAdapters)

InitDupFailure ==
  /\ display \in AttachedLayouts
  /\ status = "live"
  /\ manager \in {[duplicated_output |-> None, capture_source_index |-> k,
                   timeout_ms |-> 0] : k \in 0..MaxIndex}
  /\ nextId = 1
  /\ refreshMark = 0
  /\ lastCall = NoCall
  /\ probe \in {[kind |-> "dup", fault |-> f] : f \in {g \in Faults(display) : g.kind = "dup"}}

NextDupFailure ==
  lastCall.op = "none" /\ AcquireOutputDuplication(probe.fault)

SpecDupFailure == InitDupFailure /\ [][NextDupFailure]_vars

\* ------------------------------------------------------------------------
\* capture_frame_t from the mapped surface on: the extraction of the pixels.
\* A pixel value is a natural number; the mapped memory of a frame is the
\* sequence mem of its pixel values, row after row, each row followed by its
\* padding.  A negative value is the content of memory that was never
\* written.  The components of the pixel value v are 4v (b), 4v+1 (g),
\* 4v+2 (r), 4v+3 (a).
\* ------------------------------------------------------------------------
DXGI_MODE_ROTATION_UNSPECIFIED == 0
DXGI_MODE_ROTATION_IDENTITY == 1
DXGI_MODE_ROTATION_ROTATE90 == 2
DXGI_MODE_ROTATION_ROTATE180 == 3
DXGI_MODE_ROTATION_ROTATE270 == 4

Rotations ==
  {DXGI_MODE_ROTATION_UNSPECIFIED, DXGI_MODE_ROTATION_IDENTITY,
   DXGI_MODE_ROTATION_ROTATE90, DXGI_MODE_ROTATION_ROTATE180,
   DXGI_MODE_ROTATION_ROTATE270}

\* mem::size_of of the element types
size_of(T) == IF T = "u8" THEN 1 ELSE 4

byte_size(T, x) == (x * size_of("BGRA8")) \div size_of(T)

stride(frame) == frame.Pitch \div size_of("BGRA8")

byte_stride(T, frame) == byte_size(T, stride(frame))

Swaps(frame) ==
  frame.Rotation \in {DXGI_MODE_ROTATION_ROTATE90, DXGI_MODE_ROTATION_ROTATE270}

\* output_width and output_height after the mem::swap
output_width(frame) == IF Swaps(frame) THEN frame.height ELSE frame.width

output_height(frame) == IF Swaps(frame) THEN frame.width ELSE frame.height

\* Vec::with_capacity(byte_size(output_width * output_height)), before the swap
capacity(T, frame) == byte_size(T, frame.width * frame.height)

\* the length of mapped_pixels, in elements of T
mapped_len(T, frame) == byte_stride(T, frame) * output_height(frame)

\* the number of chunks of chunks(byte_stride)
NChunks(T, frame) ==
  (mapped_len(T, frame) + byte_stride(T, frame) - 1) \div byte_stride(T, frame)

\* chunk.as_ptr() as *const BGRA8 of chunk n, as an offset in pixels
ChunkStart(frame, n) == n * stride(frame)

\* the frame of desktop rectangle width x height whose mapped surface has
\* rows rows of row pixels, each padded by pad pixels, and holds the pixel
\* values 0, 1, 2... in the order of the memory
Mapped(width, height, Rotation, row, rows, pad) ==
  [width |-> width, height |-> height, Rotation |-> Rotation,
   Pitch |-> 4 * (row + pad),
   mem |-> [i \in 1..((row + pad) * rows) |-> i - 1]]

\* the surface of an output rotated by a quarter turn is as wide as the
\* desktop rectangle is high
FrameOf(width, height, Rotation, pad) ==
  IF Rotation \in {DXGI_MODE_ROTATION_ROTATE90, DXGI_MODE_ROTATION_ROTATE270}
  THEN Mapped(width, height, Rotation, height, width, pad)
  ELSE Mapped(width, height, Rotation, width, height, pad)

Frames ==
  {FrameOf(w, h, rot, pad) : w \in 1..MaxSide, h \in 1..MaxSide,
                             rot \in Rotations, pad \in 0..MaxPad}

\* what memory that was never written may hold
Junk == {-1, -2}

\* The writes of a rotation branch, in pixels: write number ord (in the
\* order of the loops) stores at offset dst of the buffer the pixel read at
\* offset src of the mapped memory.
\* Rotate90 with the chunks taken in their order instead of reversed
Writes90_Forward(frame) ==
  {[ord |-> column * output_height(frame) + k,
    dst |-> column + k * output_width(frame),
    src |-> ChunkStart(frame, column) + k] :
     column \in 0..(NChunks("BGRA8", frame) - 1), k \in 0..(output_height(frame) - 1)}

Writes90(frame) ==
  {[ord |-> column * output_height(frame) + k,
    dst |-> column + k * output_width(frame),
    src |-> ChunkStart(frame, NChunks("BGRA8", frame) - 1 - column) + k] :
     column \in 0..(NChunks("BGRA8", frame) - 1), k \in 0..(output_height(frame) - 1)}

Writes180(frame) ==
  {[ord |-> scan_line * output_width(frame) + k,
    dst |-> scan_line * output_width(frame) + k,
    src |-> ChunkStart(frame, NChunks("BGRA8", frame) - 1 - scan_line)
            + output_width(frame) - 1 - k] :
     scan_line \in 0..(NChunks("BGRA8", frame) - 1), k \in 0..(output_width(frame) - 1)}

\* Rotate270 with each chunk read from its start on instead of backwards
Writes270_Forward(frame) ==
  {[ord |-> column * output_height(frame) + k,
    dst |-> column + k * output_width(frame),
    src |-> ChunkStart(frame, column) + k] :
     column \in 0..(NChunks("BGRA8", frame) - 1), k \in 0..(output_height(frame) - 1)}

Writes270(frame) ==
  {[ord |-> column * output_height(frame) + k,
    dst |-> column + k * output_width(frame),
    src |-> ChunkStart(frame, column) + output_height(frame) - 1 - k] :
     column \in 0..(NChunks("BGRA8", frame) - 1), k \in 0..(output_height(frame) - 1)}

\* the writes of the branch taken for the frame's rotation (none: the slice
\* is copied as it is)
Writes(frame) ==
  IF frame.Rotation = DXGI_MODE_ROTATION_ROTATE90 THEN Writes90(frame)
  ELSE IF frame.Rotation = DXGI_MODE_ROTATION_ROTATE180 THEN Writes180(frame)
  ELSE IF frame.Rotation = DXGI_MODE_ROTATION_ROTATE270 THEN Writes270(frame)
  ELSE {}

\* *src: a read past the mapped memory finds whatever lies there
Load(frame, src, junk) ==
  IF src < Len(frame.mem) THEN frame.mem[src + 1] ELSE junk

\* the write that reaches offset dst last
LastWrite(writes, dst) ==
  CHOOSE w \in writes : w.dst = dst /\ \A v \in writes : v.dst = dst => v.ord <= w.ord

\* the pixel at offset dst of the buffer once the writes are made
Stored(frame, writes, dst, junk) ==
  IF \E w \in writes : w.dst = dst
  THEN Load(frame, LastWrite(writes, dst).src, junk)
  ELSE junk

\* the pixel value v seen as elements of T
Component(v, b) == IF v < 0 THEN v ELSE 4 * v + b

Elements(T, pixels) ==
  IF T = "u8"
  THEN [e \in 1..(4 * Len(pixels)) |-> Component(pixels[((e - 1) \div 4) + 1], (e - 1) % 4)]
  ELSE pixels

\* a write or a read of a rotation branch outside the buffer or the mapped
\* memory: the behaviour of the call is undefined
OutOfBounds(frame) ==
  \E w \in Writes(frame) :
     \/ w.dst >= capacity("BGRA8", frame)
     \/ w.src >= Len(frame.mem)

\* how the extraction may end
Endings(frame) == IF OutOfBounds(frame) THEN {"returned", "crashed"} ELSE {"returned"}

NotRun == [ended |-> "none", buf |-> <<>>, dims |-> <<0, 0>>]

\* Ok((pixel_buf, (output_width, output_height)))
Returned(T, frame, pixels) ==
  [ended |-> "returned", buf |-> Elements(T, pixels),
   dims |-> <<output_width(frame), output_height(frame)>>]

\* capture_frame_t::<T> on a mapped frame, lines 370 to 490
extract(T, frame, junk, ending) ==
  IF ending = "crashed" THEN [NotRun EXCEPT !.ended = "crashed"]
  ELSE IF frame.Rotation \in {DXGI_MODE_ROTATION_IDENTITY, DXGI_MODE_ROTATION_UNSPECIFIED}
  THEN Returned(T, frame, frame.mem)
  ELSE IF frame.Rotation \in {DXGI_MODE_ROTATION_ROTATE90, DXGI_MODE_ROTATION_ROTATE180,
                              DXGI_MODE_ROTATION_ROTATE270}
  THEN Returned(T, frame,
                [i \in 1..capacity("BGRA8", frame) |->
                   Stored(frame, Writes(frame), i - 1, junk)])
  ELSE [NotRun EXCEPT !.ended = "panicked"]

\* ------------------------------------------------------------------------
\* Specification of the extraction: capture_frame and
\* capture_frame_components are each run once on a mapped frame, and the
\* pixels returned for a square unpadded frame of a quarter turn are run
\* through the opposite quarter turn
\* ------------------------------------------------------------------------
InitExtract ==
  /\ display = <<>>
  /\ status = "live"
  /\ manager = NoManager
  /\ nextId = 1
  /\ refreshMark = 0
  /\ lastCall = NoCall
  /\ probe \in {[kind |-> "extract", frame |-> f, pixels |-> NotRun, bytes |-> NotRun,
                 back |-> NotRun] : f \in Frames}

ExtractFrame(junk, ending) ==
  /\ probe.pixels.ended = "none"
  /\ probe' = [probe EXCEPT !.pixels = extract("BGRA8", probe.frame, junk, ending)]
  /\ UNCHANGED <<display, status, manager, nextId, refreshMark, lastCall>>

ExtractFrameComponents(junk, ending) ==
  /\ probe.bytes.ended = "none"
  /\ probe' = [probe EXCEPT !.bytes = extract("u8", probe.frame, junk, ending)]
  /\ UNCHANGED <<display, status, manager, nextId, refreshMark, lastCall>>

\* the rotation that undoes a quarter turn
Opposite(Rotation) ==
  IF Rotation = DXGI_MODE_ROTATION_ROTATE90
  THEN DXGI_MODE_ROTATION_ROTATE270
  ELSE DXGI_MODE_ROTATION_ROTATE90

\* the frame that maps the pixels returned for probe.frame, turned back
TurnedBack ==
  [probe.frame EXCEPT !.Rotation = Opposite(probe.frame.Rotation),
                      !.mem = probe.pixels.buf]

ExtractBack(junk) ==
  /\ probe.pixels.ended = "returned"
  /\ probe.back.ended = "none"
  /\ Swaps(probe.frame)
  /\ probe.frame.width = probe.frame.height
  /\ probe.frame.Pitch = 4 * probe.frame.width
  /\ probe' = [probe EXCEPT !.back = extract("BGRA8", TurnedBack, junk, "returned")]
  /\ UNCHANGED <<display, status, manager, nextId, refreshMark, lastCall>>

NextExtract ==
  \/ \E junk \in Junk, ending \in Endings(probe.frame) : ExtractFrame(junk, ending)
  \/ \E junk \in Junk, ending \in Endings(probe.frame) : ExtractFrameComponents(junk, ending)
  \/ \E junk \in Junk : ExtractBack(junk)

SpecExtract == InitExtract /\ [][NextExtract]_vars

\* ------------------------------------------------------------------------
\* Vocabulary of the properties
\* ------------------------------------------------------------------------
CaptureOps == {"capture_frame", "capture_frame_components"}

Has(events, e) == \E k \in 1..Len(events) : events[k] = e

Count(events, e) == Cardinality({k \in 1..Len(events) : events[k] = e})

\* the latest call was a capture call of a manager that held no session
CapturedUnacquired ==
  lastCall.op \in CaptureOps /\ lastCall.pre.duplicated_output.id = 0

\* the latest call was a capture call of a manager that held a session
CapturedAcquired ==
  lastCall.op \in CaptureOps /\ lastCall.pre.duplicated_output.id # 0

\* ... and its frame request (AcquireNextFrame itself) failed with hr
FrameRequestFailedWith(hr) ==
  /\ CapturedAcquired
  /\ lastCall.hr = hr
  /\ lastCall.frameOn # 0
  /\ ~Has(lastCall.events, "CreateTexture2D")

\* C1: a capture call of a manager that holds no session runs acquire()
\* exactly once, issues no frame request and never returns a frame: it
\* returns Fail("No valid duplicated output") if the acquire succeeded, the
\* manager then holding a session, and RefreshFailure if the acquire failed,
\* the manager then holding none.
C1_UnacquiredCaptureFails ==
  CapturedUnacquired =>
    /\ Count(lastCall.events, "acquire_output_duplication") = 1
    /\ ~Has(lastCall.events, "AcquireNextFrame")
    /\ lastCall.frameOn = 0
    /\ lastCall.result # "Ok"
    /\ lastCall.acq.outcome = "Ok" =>
         /\ lastCall.result = "Fail"
         /\ lastCall.reason = "No valid duplicated output"
         /\ manager.duplicated_output.id # 0
    /\ lastCall.acq.outcome = "Err" =>
         /\ lastCall.result = "RefreshFailure"
         /\ manager.duplicated_output.id = 0

C1_Witness ==
  /\ CapturedUnacquired
  /\ lastCall.acq.outcome = "Ok"
  /\ lastCall.result = "Fail"

\* C2 as stated: when the frame request of a manager that holds a session
\* fails with the access-lost code, the call runs acquire() and, if it
\* returns, returns AccessLost whether the re-acquisition succeeded or not.
C2_AlwaysAccessLost ==
  (FrameRequestFailedWith(DXGI_ERROR_ACCESS_LOST) /\ lastCall.result # "Panic") =>
    /\ Has(lastCall.events, "acquire_output_duplication")
    /\ lastCall.result = "AccessLost"

\* C2 amended: when the frame request of a manager that holds a session
\* fails with the access-lost code, the call runs acquire() once, after the
\* frame request, and returns AccessLost if the re-acquisition succeeded and
\* RefreshFailure if it returned an error.
C2_AccessLostOrRefreshFailure ==
  FrameRequestFailedWith(DXGI_ERROR_ACCESS_LOST) =>
    /\ lastCall.events = <<"AcquireNextFrame", "acquire_output_duplication">>
    /\ lastCall.acq.outcome = "Ok" => lastCall.result = "AccessLost"
    /\ lastCall.acq.outcome = "Err" => lastCall.result = "RefreshFailure"

C2_Witness ==
  /\ FrameRequestFailedWith(DXGI_ERROR_ACCESS_LOST)
  /\ lastCall.acq.outcome = "Err"
  /\ lastCall.result = "RefreshFailure"

\* C3: a capture call that returns Timeout or AccessDenied ran no acquire()
\* and leaves the manager as it was: the same session (same identity), the
\* same capture_source_index, the same timeout_ms.
C3_TimeoutAndDeniedKeepSession ==
  (lastCall.op \in CaptureOps /\ lastCall.result \in {"Timeout", "AccessDenied"}) =>
    /\ ~Has(lastCall.events, "acquire_output_duplication")
    /\ lastCall.acq.outcome = "none"
    /\ manager.duplicated_output.id # 0
    /\ manager.duplicated_output = lastCall.pre.duplicated_output
    /\ manager.capture_source_index = lastCall.pre.capture_source_index
    /\ manager.timeout_ms = lastCall.pre.timeout_ms

C3_Witness ==
  /\ lastCall.op \in CaptureOps
  /\ lastCall.result = "Timeout"
  /\ manager.duplicated_output.id # 0
  /\ manager.capture_source_index # 0

\* C4 as stated: every capture call of a manager that holds a session and
\* returns Fail has run acquire() within the call and no longer holds the
\* session it started with.
C4_FailMeansRecoveryRan ==
  (CapturedAcquired /\ lastCall.result = "Fail") =>
    /\ Has(lastCall.events, "acquire_output_duplication")
    /\ manager.duplicated_output.id # lastCall.pre.duplicated_output.id

\* C5: after a capture call that returns AccessLost the manager holds no
\* session or a session created by the acquire() of that call; it never
\* holds the session whose frame request failed.
C5_AccessLostDropsStaleSession ==
  (lastCall.op \in CaptureOps /\ lastCall.result = "AccessLost") =>
    /\ manager.duplicated_output.id # lastCall.frameOn
    /\ manager.duplicated_output.id # lastCall.pre.duplicated_output.id
    /\ \/ manager.duplicated_output.id = 0
       \/ /\ lastCall.acq.outcome = "Ok"
          /\ manager.duplicated_output.id = nextId - 1
          /\ manager.duplicated_output.id > lastCall.pre.duplicated_output.id

C5_Witness ==
  /\ lastCall.op \in CaptureOps
  /\ lastCall.result = "AccessLost"
  /\ lastCall.frameOn # 0
  /\ manager.duplicated_output.id # 0

\* C6: a capture call that returns RefreshFailure leaves the manager without
\* a session; every capture call of a manager without a session starts with
\* acquire() and issues no frame request; and no frame request is issued on
\* a session that was created before the latest RefreshFailure.
C6_RefreshFailureRetriesFromScratch ==
  /\ (lastCall.op \in CaptureOps /\ lastCall.result = "RefreshFailure") =>
       manager.duplicated_output.id = 0
  /\ CapturedUnacquired =>
       /\ lastCall.events = <<"acquire_output_duplication">>
       /\ lastCall.frameOn = 0
  /\ lastCall.frameOn # 0 => lastCall.frameOn >= lastCall.preMark
  /\ manager.duplicated_output.id # 0 => manager.duplicated_output.id >= refreshMark

C6_Witness ==
  /\ CapturedUnacquired
  /\ lastCall.preMark # 0
  /\ lastCall.result = "RefreshFailure"

\* the number of outputs get_adapter_outputs discovers on an adapter: the
\* longest prefix of attached outputs
PrefixLen(adapter) ==
  Cardinality({j \in 1..Len(adapter) : \A i \in 1..j : adapter[i].attached})

\* the discovered outputs of all adapters in enumeration order, as
\* <<adapter, output>>
RECURSIVE DiscoveredFrom(_, _)
DiscoveredFrom(layout, a) ==
  IF a > Len(layout) THEN <<>>
  ELSE [j \in 1..PrefixLen(layout[a]) |-> <<a, j>>] \o DiscoveredFrom(layout, a + 1)

IsPrimaryAt(layout, p) == layout[p[1]][p[2]].primary

PrimaryOf(layout) ==
  LET test(p) == IsPrimaryAt(layout, p) IN SelectSeq(DiscoveredFrom(layout, 1), test)

NonPrimaryOf(layout) ==
  LET test(p) == ~IsPrimaryAt(layout, p) IN SelectSeq(DiscoveredFrom(layout, 1), test)

\* the latest call was acquire_output_duplication and no driver call failed
\* during its pass
AcquiredUndisturbed ==
  lastCall.op = "acquire_output_duplication" /\ lastCall.acq.hit = "none"

\* C7 as stated: with capture_source_index k > 0 and no driver failure,
\* acquire() selects the k-th non-primary output counted over the discovered
\* outputs of all adapters in enumeration order, and fails only if there are
\* fewer than k of them.
C7_KthNonPrimaryOverall ==
  (AcquiredUndisturbed /\ lastCall.pre.capture_source_index > 0) =>
    IF lastCall.pre.capture_source_index <= Len(NonPrimaryOf(display))
    THEN /\ lastCall.result = "Ok"
         /\ <<manager.duplicated_output.adapter, manager.duplicated_output.output>>
              = NonPrimaryOf(display)[lastCall.pre.capture_source_index]
    ELSE /\ lastCall.result = "Err"
         /\ manager.duplicated_output.id = 0

\* C8: with capture_source_index 0, an acquire() that returns, no
\* duplication having failed, leaves the manager with a session on the first
\* primary output in enumeration order (adapters in index order) if the
\* discovered outputs hold one, and returns an error, the manager without a
\* session, if they hold none.
C8_FirstPrimaryOverall ==
  (AcquiredUndisturbed /\ lastCall.pre.capture_source_index = 0) =>
    IF Len(PrimaryOf(display)) > 0
    THEN /\ lastCall.result = "Ok"
         /\ manager.duplicated_output.id # 0
         /\ <<manager.duplicated_output.adapter, manager.duplicated_output.output>>
              = PrimaryOf(display)[1]
    ELSE /\ lastCall.result = "Err"
         /\ manager.duplicated_output.id = 0

C8_Witness ==
  /\ AcquiredUndisturbed
  /\ lastCall.pre.capture_source_index = 0
  /\ lastCall.result = "Ok"
  /\ manager.duplicated_output.adapter = 2
  /\ manager.duplicated_output.output = 2
  /\ PrefixLen(display[1]) > 0

\* C9 as stated: new(timeout_ms) either returns a manager that holds a
\* session, with capture_source_index 0 and the given timeout, or returns an
\* error; it ends in no other way.
C9_NewReturnsManagerOrError ==
  lastCall.op = "new" =>
    \/ /\ lastCall.result = "Ok"
       /\ status = "live"
       /\ manager.duplicated_output.id # 0
       /\ manager.capture_source_index = 0
       /\ manager.timeout_ms = lastCall.arg
    \/ /\ lastCall.result = "Err"
       /\ status = "none"

\* the session d is the one the selection for index i yields on layout: on
\* the first adapter that has a match among its own discovered outputs, the
\* first primary output for i = 0 and the i-th non-primary output for i > 0
MatchOn(adapter, out, i) ==
  /\ out \in 1..PrefixLen(adapter)
  /\ IF i = 0
     THEN adapter[out].primary /\ \A j \in 1..(out - 1) : ~adapter[j].primary
     ELSE /\ ~adapter[out].primary
          /\ Cardinality({j \in 1..out : ~adapter[j].primary}) = i

SelectedFor(layout, d, i) ==
  /\ d.adapter \in 1..Len(layout)
  /\ MatchOn(layout[d.adapter], d.output, i)
  /\ \A a \in 1..(d.adapter - 1) :
       \A out \in 1..Len(layout[a]) : ~MatchOn(layout[a], out, i)

\* the state a call of set_capture_source_index(i) leaves
C10_AfterSetIndex ==
  /\ manager.capture_source_index = lastCall.arg
  /\ lastCall.events = <<"acquire_output_duplication">>
  /\ lastCall.pre.duplicated_output.id # 0 =>
       manager.duplicated_output.id # lastCall.pre.duplicated_output.id
  /\ lastCall.result \in {"Ok", "Panic"}
  /\ lastCall.result = "Ok" =>
       /\ status = "live"
       /\ lastCall.acq.outcome = "Ok"
       /\ manager.duplicated_output.id = nextId - 1
       /\ manager.duplicated_output.index = lastCall.arg
       /\ SelectedFor(display, manager.duplicated_output, lastCall.arg)
  /\ lastCall.acq.outcome # "Ok" =>
       /\ lastCall.result = "Panic"
       /\ status = "panicked"
       /\ manager.duplicated_output.id = 0

\* C10: set_capture_source_index(i) stores i, drops the session held and
\* runs acquire(); if it returns, the manager holds a new session on the
\* output selected for i; if the acquisition fails the call panics, the
\* manager holding i and no session.  get_capture_source_index returns the
\* index stored, which only set_capture_source_index changes.
C10_SetIndexStoresThenAcquires ==
  /\ [][(lastCall' # lastCall /\ lastCall'.op = "set_capture_source_index")
          => C10_AfterSetIndex']_vars
  /\ [][(lastCall.op = "set_capture_source_index"
         /\ lastCall'.op = "get_capture_source_index")
          => lastCall'.value = lastCall.arg]_vars
  /\ [][(status = "live"
         /\ manager'.capture_source_index # manager.capture_source_index)
          => lastCall'.op = "set_capture_source_index"]_vars
  /\ [](lastCall.op = "get_capture_source_index"
          => lastCall.value = manager.capture_source_index)

C10_Witness ==
  /\ lastCall.op = "set_capture_source_index"
  /\ lastCall.arg = 1
  /\ lastCall.result = "Ok"
  /\ lastCall.pre.capture_source_index = 0
  /\ lastCall.pre.duplicated_output.id # 0
  /\ manager.duplicated_output.adapter = 2

\* ------------------------------------------------------------------------
\* Properties of the discovery (SpecDiscover) and of a failing duplication
\* (SpecDupFailure)
\* ------------------------------------------------------------------------
\* C14: output discovery returns exactly the longest prefix of attached
\* outputs in the adapter's enumeration order: from [attached, detached,
\* attached] only the first, and nothing when output 0 is detached
C14_DiscoveryIsLongestAttachedPrefix ==
  (probe.kind = "discover" /\ probe.done)
  => /\ probe.outputs = [k \in 1..PrefixLen(probe.adapter) |-> k]
     /\ (Len(probe.adapter) >= 1 /\ ~probe.adapter[1].attached) => probe.outputs = <<>>

C14_Witness ==
  /\ probe.kind = "discover"
  /\ probe.done
  /\ Len(probe.adapter) = 3
  /\ probe.adapter[1].attached
  /\ ~probe.adapter[2].attached
  /\ probe.adapter[3].attached
  /\ probe.outputs = <<1>>

\* the pass reaches the adapter of the failing duplication: no adapter
\* before it has an output that matches the index
ReachesFailure ==
  /\ probe.fault.output \in 1..PrefixLen(display[probe.fault.adapter])
  /\ \A a \in 1..(probe.fault.adapter - 1) :
       \A out \in 1..Len(display[a]) :
         ~MatchOn(display[a], out, lastCall.pre.capture_source_index)

\* C15: if creating the duplication handle fails for an output of an
\* adapter that acquire() visits, the whole acquisition fails at once and
\* leaves the manager Unacquired: the adapter is not skipped and no later
\* adapter is tried, even when the output that matches the index was
\* already duplicated on the same adapter or sits on a later adapter
C15_DuplicationFailureIsFatal ==
  (/\ probe.kind = "dup"
   /\ lastCall.op = "acquire_output_duplication"
   /\ ReachesFailure)
  => /\ lastCall.result = "Err"
     /\ lastCall.acq.hit = "dup"
     /\ manager.duplicated_output.id = 0

\* the primary output, first on adapter 1, matches index 0 and the
\* duplication of the output after it fails, with one more primary output
\* on adapter 2
C15_Witness ==
  /\ probe.kind = "dup"
  /\ lastCall.op = "acquire_output_duplication"
  /\ lastCall.pre.capture_source_index = 0
  /\ display = <<(<<Primary, Secondary>>), (<<Primary>>)>>
  /\ probe.fault.adapter = 1
  /\ probe.fault.output = 2
  /\ lastCall.result = "Err"
  /\ manager.duplicated_output.id = 0

\* ------------------------------------------------------------------------
\* Properties of the driver calls of one capture call (Spec)
\* ------------------------------------------------------------------------
\* the position of the first event e (0: none)
FirstAt(events, e) ==
  IF Has(events, e) THEN CHOOSE k \in 1..Len(events) :
                           events[k] = e /\ \A j \in 1..(k - 1) : events[j] # e
  ELSE 0

\* C16: in every capture call acquire() runs at most once and at most one
\* frame request is issued, and when both happen the frame request comes
\* first
C16_OnePassOneFrameRequest ==
  lastCall.op \in CaptureOps
  => /\ Count(lastCall.events, "acquire_output_duplication") <= 1
     /\ Count(lastCall.events, "AcquireNextFrame") <= 1
     /\ (Has(lastCall.events, "acquire_output_duplication")
         /\ Has(lastCall.events, "AcquireNextFrame"))
        => FirstAt(lastCall.events, "AcquireNextFrame")
             < FirstAt(lastCall.events, "acquire_output_duplication")

C16_Witness ==
  /\ lastCall.op \in CaptureOps
  /\ lastCall.events = <<"AcquireNextFrame", "acquire_output_duplication">>
  /\ lastCall.result = "Fail"
  /\ lastCall.acq.outcome = "Ok"

\* the frame request of the latest capture call handed out a frame: the
\* call went on to create the staging texture
FrameHandedOut ==
  lastCall.op \in CaptureOps /\ Has(lastCall.events, "CreateTexture2D")

\* C17: every frame handed out by a successful frame request is released
\* (ReleaseFrame) before the capture call returns, on every path of the call
C17_FrameReleasedBeforeReturn ==
  FrameHandedOut
  => /\ Count(lastCall.events, "ReleaseFrame") = 1
     /\ FirstAt(lastCall.events, "AcquireNextFrame")
          < FirstAt(lastCall.events, "ReleaseFrame")

\* the number of times the capture call released its reference to the
\* handle that the ComPtr named holds
Releases(events, named) ==
  Count(events, "Drop(" \o named \o ")")
    + (IF named = "frame_surface" THEN Count(events, "Release") ELSE 0)

\* C18: every native handle obtained during a capture call (the frame
\* resource, the staging texture, the staging surface) has its reference
\* released exactly once on every path of the call
C18_HandlesReleasedOnce ==
  lastCall.op \in CaptureOps
  => /\ FrameHandedOut => Releases(lastCall.events, "frame_resource") = 1
     /\ Has(lastCall.events, "CopyResource")
        => Releases(lastCall.events, "readable_surface") = 1
     /\ Has(lastCall.events, "Map")
        => Releases(lastCall.events, "frame_surface") = 1

\* ------------------------------------------------------------------------
\* Properties of the extraction (SpecExtract)
\* ------------------------------------------------------------------------
Extracting == probe.kind = "extract"

\* the mapped source pixel at row row, column col of the frame's surface
SourceAt(frame, row, col) == frame.mem[row * stride(frame) + col + 1]

\* the pixel returned at row row, column col of a buffer of rows of
\* output_width pixels
DestAt(frame, buf, row, col) == buf[row * output_width(frame) + col + 1]

\* C11: every successful capture_frame_components result, whatever the
\* rotation and whatever the pitch (equal to or larger than four times the
\* row width), has a buffer of exactly width * height * 4 elements
C11_LengthIsWidthHeightFour ==
  (Extracting /\ probe.bytes.ended = "returned")
  => probe.bytes.dims[1] * probe.bytes.dims[2] * 4 = Len(probe.bytes.buf)

\* C12: for the same mapped frame capture_frame and capture_frame_components
\* return the same (width, height), the byte result has four times as many
\* elements as the pixel result, and the bytes taken four by four are the
\* components (b, g, r, a) of the pixels in their order
C12_ComponentsArePixels ==
  (Extracting /\ probe.pixels.ended = "returned" /\ probe.bytes.ended = "returned")
  => /\ probe.bytes.dims = probe.pixels.dims
     /\ Len(probe.bytes.buf) = 4 * Len(probe.pixels.buf)
     /\ \A i \in 1..Len(probe.pixels.buf), b \in 0..3 :
          probe.bytes.buf[4 * (i - 1) + b + 1] = Component(probe.pixels.buf[i], b)

WritesCoverBuffer(frame) ==
  /\ \A w \in Writes(frame) :
       /\ w.dst \in 0..(frame.width * frame.height - 1)
       /\ w.src \in 0..(Len(frame.mem) - 1)
  /\ \A i \in 0..(frame.width * frame.height - 1) : \E w \in Writes(frame) : w.dst = i

\* C19: in the Rotate90, Rotate180 and Rotate270 branches, for every
\* positive rectangle and every pitch of at least four times the row width,
\* every destination index written is inside the buffer of width * height
\* pixels, every source index read is inside the mapped region, and every
\* element of the returned buffer has been written
C19_RotationsStayInBounds ==
  (/\ Extracting
   /\ probe.pixels.ended # "none"
   /\ probe.frame.Rotation \in {DXGI_MODE_ROTATION_ROTATE90, DXGI_MODE_ROTATION_ROTATE180,
                                DXGI_MODE_ROTATION_ROTATE270})
  => /\ WritesCoverBuffer(probe.frame)
     /\ probe.pixels.ended = "returned"
     /\ \A i \in 1..Len(probe.pixels.buf) : probe.pixels.buf[i] >= 0

\* C20: on a square surface N x N with pitch 4 * N, Rotate90 and Rotate270
\* are mutual inverses: the pixels returned for the one, extracted with the
\* other, are the pixels of the mapped memory again
C20_QuarterTurnsAreInverses ==
  (Extracting /\ probe.back.ended # "none")
  => /\ probe.back.ended = "returned"
     /\ probe.back.buf = probe.frame.mem
     /\ probe.back.dims = probe.pixels.dims

C20_Witness ==
  /\ Extracting
  /\ probe.back.ended = "returned"
  /\ probe.frame.Rotation = DXGI_MODE_ROTATION_ROTATE270
  /\ probe.frame.width = 2
  /\ probe.pixels.buf # probe.frame.mem
  /\ probe.back.buf = probe.frame.mem

\* ------------------------------------------------------------------------
\* Invariant of the manager (Spec)
\* ------------------------------------------------------------------------
\* C21: in every reachable state, if a session is present then it is the
\* one the most recent acquire() produced (the latest session created, and
\* a new one if the latest call ran acquire()), and it was selected with
\* the capture_source_index that the manager holds: the index never
\* changes while a session selected for another index stays in place
C21_SessionIsOfLatestAcquireAndIndex ==
  manager.duplicated_output.id # 0
  => /\ manager.duplicated_output.index = manager.capture_source_index
     /\ manager.duplicated_output.id = nextId - 1
     /\ lastCall.acq.outcome # "none"
        => /\ lastCall.acq.outcome = "Ok"
           /\ manager.duplicated_output.id # lastCall.pre.duplicated_output.id

\* a session selected for index 1, after an earlier session, outlives a
\* call of set_timeout_ms
C21_Witness ==
  /\ lastCall.op = "set_timeout_ms"
  /\ manager.duplicated_output.id >= 2
  /\ manager.duplicated_output.index = 1
  /\ manager.capture_source_index = 1
  /\ manager.timeout_ms = 300

====
